---- MODULE Spec2Model ----
(***************************************************************************)
(* A model of the AMPL session facade of amplpy (src/amplpy/ampl.py): the  *)
(* class AMPL forwards every call to the native engine object self._impl   *)
(* and keeps two fields of its own, _outputhandler and _errorhandler.      *)
(*                                                                         *)
(* Python values are records [t, n, e, s]: t is the runtime type, n an     *)
(* integer payload, e a decimal exponent (floats are n * 10^e), s a        *)
(* sequence of one-character strings (the text of a str) or of names.      *)
(***************************************************************************)
EXTENDS Integers, Sequences, FiniteSets, TLC

(***************************************************************************)
(* Python values                                                           *)
(***************************************************************************)
NoneV == [t |-> "None", n |-> 0, e |-> 0, s |-> <<>>]

IntV(i) == [t |-> "int", n |-> i, e |-> 0, s |-> <<>>]

BoolV(b) == [t |-> "bool", n |-> IF b THEN 1 ELSE 0, e |-> 0, s |-> <<>>]

StrV(chars) == [t |-> "str", n |-> 0, e |-> 0, s |-> chars]

ListV == [t |-> "list", n |-> 0, e |-> 0, s |-> <<>>]

\* a finite float m * 10^x, normalised so that m carries no trailing zero
RECURSIVE FloatV(_, _)
FloatV(m, x) ==
  IF m = 0 THEN [t |-> "float", n |-> 0, e |-> 0, s |-> <<>>]
  ELSE IF m % 10 = 0 THEN FloatV(m \div 10, x + 1)
  ELSE [t |-> "float", n |-> m, e |-> x, s |-> <<>>]

\* inf, -inf (sign in n) and nan
SpecialFloatV(sign, word) == [t |-> "float", n |-> sign, e |-> 0, s |-> word]

(***************************************************************************)
(* Text: the characters the str -> int and str -> float conversions read   *)
(***************************************************************************)
Digits == <<"0", "1", "2", "3", "4", "5", "6", "7", "8", "9">>

IsDigit(c) == \E i \in 1..10 : Digits[i] = c

DigitVal(c) == (CHOOSE i \in 1..10 : Digits[i] = c) - 1

IsSpace(c) == c \in {" ", "\t", "\n"}

UpperLetters == <<"E", "I", "N", "F", "A", "T", "Y">>

LowerLetters == <<"e", "i", "n", "f", "a", "t", "y">>

\* str.lower() on the letters the float grammar reads
Lower(c) ==
  IF \E i \in 1..Len(UpperLetters) : UpperLetters[i] = c
  THEN LowerLetters[CHOOSE i \in 1..Len(UpperLetters) : UpperLetters[i] = c]
  ELSE c

RECURSIVE LStrip(_)
LStrip(s) == IF s # <<>> /\ IsSpace(Head(s)) THEN LStrip(Tail(s)) ELSE s

RECURSIVE RStrip(_)
RStrip(s) ==
  IF s # <<>> /\ IsSpace(s[Len(s)]) THEN RStrip(SubSeq(s, 1, Len(s) - 1)) ELSE s

Strip(s) == LStrip(RStrip(s))

HasSign(s) == s # <<>> /\ Head(s) \in {"+", "-"}

Unsigned(s) == IF HasSign(s) THEN Tail(s) ELSE s

SignOf(s) == IF s # <<>> /\ Head(s) = "-" THEN -1 ELSE 1

AllDigits(s) == s # <<>> /\ \A i \in 1..Len(s) : IsDigit(s[i])

RECURSIVE DigitsVal(_)
DigitsVal(s) ==
  IF s = <<>> THEN 0 ELSE 10 * DigitsVal(SubSeq(s, 1, Len(s) - 1)) + DigitVal(s[Len(s)])

\* the decimal text of a natural number, then of an integer
RECURSIVE NatToStr(_)
NatToStr(i) ==
  IF i < 10 THEN <<Digits[i + 1]>> ELSE NatToStr(i \div 10) \o <<Digits[(i % 10) + 1]>>

IntToStr(i) == IF i < 0 THEN <<"-">> \o NatToStr(-i) ELSE NatToStr(i)

PosOf(s, cs) ==
  IF \E i \in 1..Len(s) : s[i] \in cs
  THEN CHOOSE i \in 1..Len(s) : s[i] \in cs /\ \A j \in 1..(i - 1) : s[j] \notin cs
  ELSE 0

(***************************************************************************)
(* int(value) of a str: surrounding white space, an optional sign, decimal *)
(* digits; anything else is a ValueError                                   *)
(***************************************************************************)
IntParses(s) == AllDigits(Unsigned(Strip(s)))

IntOf(s) == SignOf(Strip(s)) * DigitsVal(Unsigned(Strip(s)))

(***************************************************************************)
(* float(value) of a str: surrounding white space, an optional sign, then  *)
(* inf / infinity / nan in any case, or digits with at most one point and  *)
(* an optional exponent; anything else is a ValueError                     *)
(***************************************************************************)
LowerAll(s) == [i \in 1..Len(s) |-> Lower(s[i])]

IsSpecialWord(s) ==
  LowerAll(s) \in {<<"i", "n", "f">>, <<"n", "a", "n">>,
                   <<"i", "n", "f", "i", "n", "i", "t", "y">>}

ExpPos(s) == PosOf(s, {"e", "E"})

MantissaText(s) == IF ExpPos(s) = 0 THEN s ELSE SubSeq(s, 1, ExpPos(s) - 1)

ExponentText(s) == SubSeq(s, ExpPos(s) + 1, Len(s))

PointPos(m) == PosOf(m, {"."})

IntPart(m) == IF PointPos(m) = 0 THEN m ELSE SubSeq(m, 1, PointPos(m) - 1)

FracPart(m) == IF PointPos(m) = 0 THEN <<>> ELSE SubSeq(m, PointPos(m) + 1, Len(m))

MantissaOk(m) ==
  /\ IntPart(m) \o FracPart(m) # <<>>
  /\ \A i \in 1..Len(IntPart(m)) : IsDigit(IntPart(m)[i])
  /\ \A i \in 1..Len(FracPart(m)) : IsDigit(FracPart(m)[i])

ExponentOk(s) == ExpPos(s) = 0 \/ AllDigits(Unsigned(ExponentText(s)))

DecimalOk(s) == MantissaOk(MantissaText(s)) /\ ExponentOk(s)

FloatParses(s) ==
  LET u == Unsigned(Strip(s)) IN IsSpecialWord(u) \/ DecimalOk(u)

FloatOf(s) ==
  LET t == Strip(s)
      u == Unsigned(t)
      m == MantissaText(u)
      x == IF ExpPos(u) = 0 THEN 0
           ELSE SignOf(ExponentText(u)) * DigitsVal(Unsigned(ExponentText(u)))
  IN IF IsSpecialWord(u)
     THEN SpecialFloatV(IF LowerAll(u) = <<"n", "a", "n">> THEN 1 ELSE SignOf(t),
                        SubSeq(LowerAll(u), 1, 3))
     ELSE FloatV(SignOf(t) * DigitsVal(IntPart(m) \o FracPart(m)), x - Len(FracPart(m)))

RECURSIVE Pow10(_)
Pow10(k) == IF k = 0 THEN 1 ELSE 10 * Pow10(k - 1)

\* the C conversion of a finite float to an integer: towards zero
Trunc(v) ==
  IF v.e >= 0 THEN v.n * Pow10(v.e)
  ELSE IF v.n >= 0 THEN v.n \div Pow10(-v.e) ELSE -((-v.n) \div Pow10(-v.e))

(***************************************************************************)
(* Bounds and input sets                                                   *)
(***************************************************************************)
\* explicit close() calls a client makes before the facade is torn down
MaxCloses == 2

\* names a model may declare
MaxNames == 2

NamePool == <<"x", "y", "z", "w", "v">>

Names == {NamePool[i] : i \in 1..MaxNames}

Kinds == {"Variable", "Constraint", "Objective", "Set", "Parameter"}

OptNames == {"presolve", "s_o_l_v_e_r"}

Handlers == {"h1", "h2"}

HandlerKinds == {"out", "err"}

StrInputs ==
  { <<"1", "0">>, <<"1", ".", "5">>, <<"g", "u", "r", "o", "b", "i">>,
    <<" ", "7">>, <<"1", "e", "3">>, <<"i", "n", "f">>, <<>> }

OptionValues ==
  {IntV(0), IntV(10), BoolV(FALSE), BoolV(TRUE), FloatV(15, -1), FloatV(2, 0)}
    \cup {StrV(s) : s \in StrInputs} \cup {NoneV, ListV}

Statements ==
  [k : Kinds, a : Names] \cup {[k |-> "reset", a |-> ""], [k |-> "bad", a |-> ""]}

Files == Statements \cup {[k |-> "missing", a |-> ""]}

VARIABLES
  alive,          \* the AMPL object exists (__del__ has not run)
  outputhandler,  \* self._outputhandler
  errorhandler,   \* self._errorhandler
  running,        \* engine: the interpreter is running
  closeCalls,     \* engine: number of self._impl.close() invocations
  options,        \* engine: option name -> stored text
  decls,          \* engine: kind -> declared names, in engine order
  installed,      \* engine: handler kind -> installed handler
  call,           \* the last facade call: [op, k, a, v]
  ret,            \* its return value
  raised,         \* the exception it raised, or "none"
  setter,         \* the engine option setter it invoked, or "none"
  delivered,      \* it had an engine error delivered to the error handler
  written,        \* history: option name -> value of the last successful setOption
  removed,        \* history: names a reset dropped that were not declared since
  lastSet         \* history: handler kind -> handler last set successfully

vars ==
  <<alive, outputhandler, errorhandler, running, closeCalls, options, decls,
    installed, call, ret, raised, setter, delivered, written,
    removed, lastSet>>

facadeVars == <<outputhandler, errorhandler>>

declVars == <<decls, removed>>

optionVars == <<options, written>>

handlerVars == <<outputhandler, errorhandler, installed, lastSet>>

Call(op, k, a, v) == [op |-> op, k |-> k, a |-> a, v |-> v]

\* exceptions that are RuntimeError to an except clause
RuntimeErrors == {"EngineNotRunning", "OptionNotFound", "FileNotFound"}

\* the state __init__ leaves: both handler fields None, the engine started, with
\* its presolve option at the default text and no handler installed
Init ==
  /\ alive = TRUE
  /\ outputhandler = "none"
  /\ errorhandler = "none"
  /\ running = TRUE
  /\ closeCalls = 0
  /\ options = [n \in {"presolve"} |-> <<"1", "0">>]
  /\ decls = [k \in Kinds |-> <<>>]
  /\ installed = [h \in HandlerKinds |-> "none"]
  /\ call = Call("__init__", "", "", NoneV)
  /\ ret = NoneV
  /\ raised = "none"
  /\ setter = "none"
  /\ delivered = FALSE
  /\ written = [n \in OptNames |-> NoneV]
  /\ removed = {}
  /\ lastSet = [h \in HandlerKinds |-> "none"]

(***************************************************************************)
(* Outcomes of a facade call                                               *)
(***************************************************************************)
Returns(c, r) == call' = c /\ ret' = r /\ raised' = "none"

Raises(c, x) == call' = c /\ ret' = NoneV /\ raised' = x

(***************************************************************************)
(* The engine behind self._impl                                            *)
(* (the native module is not part of the Python source: its behaviour is   *)
(* the one the facade's docstrings and the interface description give)     *)
(***************************************************************************)
\* what an engine call raises before doing anything, or "none"
EngineGuard == IF running THEN "none" ELSE "EngineNotRunning"

\* the texts an engine setter may store for a value, {} when it rejects it:
\* the integer setter given a float either rejects it or converts it
EngineTexts(target, value) ==
  CASE target = "setIntOption" /\ value.t \in {"int", "bool"} -> {IntToStr(value.n)}
    [] target = "setIntOption" /\ value.t = "float" -> {IntToStr(Trunc(value))}
    [] target = "setBoolOption" -> {IntToStr(value.n)}
    [] target = "setOption" -> {value.s}
    [] OTHER -> {}

EngineRejects(target, value) == target = "setIntOption" /\ value.t = "float"

EngineStore(name, text) ==
  options' = [n \in DOMAIN options \cup {name} |-> IF n = name THEN text ELSE options[n]]

\* self._impl.getOption(name).value(): the stored text, or a RuntimeError
EngineGetOption(name) ==
  IF ~running THEN [raised |-> "EngineNotRunning", text |-> <<>>]
  ELSE IF name \notin DOMAIN options THEN [raised |-> "OptionNotFound", text |-> <<>>]
  ELSE [raised |-> "none", text |-> options[name]]

(***************************************************************************)
(* AMPL.setOption(name, value)                                             *)
(***************************************************************************)
\* isinstance(value, cls); bool is a subclass of int, and basestring is the
\* Python 2 builtin that str derives from
IsInstance(value, cls) ==
  CASE cls = "int" -> value.t \in {"int", "bool"}
    [] cls = "float" -> value.t = "float"
    [] cls = "bool" -> value.t = "bool"
    [] cls = "basestring" -> value.t = "str"

\* setOption with a last branch that hands any other value to the generic setter
SetterForLenient(value) ==
  IF IsInstance(value, "int") THEN "setIntOption"
  ELSE IF IsInstance(value, "float") THEN "setIntOption"
  ELSE IF IsInstance(value, "bool") THEN "setBoolOption"
  ELSE "setOption"

\* the branch setOption takes: the engine setter it calls, or what it raises
SetterFor(value) ==
  IF IsInstance(value, "int") THEN "setIntOption"
  ELSE IF IsInstance(value, "float") THEN "setIntOption"
  ELSE IF IsInstance(value, "bool") THEN "setBoolOption"
  ELSE IF IsInstance(value, "basestring") THEN "setOption"
  ELSE "TypeError"

setOption(name, value) ==
  LET c == Call("setOption", "", name, value)
      target == SetterFor(value)
  IN /\ alive
     /\ delivered' = FALSE
     /\ IF target = "TypeError"
        THEN /\ Raises(c, target)
             /\ setter' = "none"
             /\ UNCHANGED optionVars
        ELSE /\ setter' = target
             /\ IF EngineGuard # "none"
                THEN Raises(c, EngineGuard) /\ UNCHANGED optionVars
                ELSE \/ /\ EngineRejects(target, value)
                        /\ Raises(c, "TypeError")
                        /\ UNCHANGED optionVars
                     \/ \E text \in EngineTexts(target, value) :
                          /\ Returns(c, NoneV)
                          /\ EngineStore(name, text)
                          /\ written' = [written EXCEPT ![name] = value]
     /\ UNCHANGED <<alive, running, closeCalls, declVars, handlerVars>>

(***************************************************************************)
(* AMPL.getOption(name)                                                    *)
(***************************************************************************)
\* getOption trying float(value) before int(value)
RecoverFloatFirst(text) ==
  IF FloatParses(text) THEN FloatOf(text)
  ELSE IF IntParses(text) THEN IntV(IntOf(text))
  ELSE StrV(text)

\* getOption returning the stored text as it is
RecoverTextOnly(text) == StrV(text)

\* try int(value), then float(value), else the text itself
Recover(text) ==
  IF IntParses(text) THEN IntV(IntOf(text))
  ELSE IF FloatParses(text) THEN FloatOf(text)
  ELSE StrV(text)

\* getOption without its except clause
GetOptionResultUncaught(name) ==
  LET got == EngineGetOption(name)
  IN IF got.raised # "none" THEN [ret |-> NoneV, raised |-> got.raised]
     ELSE [ret |-> Recover(got.text), raised |-> "none"]

\* [ret, raised] of getOption: a RuntimeError of the engine call becomes None
GetOptionResult(name) ==
  LET got == EngineGetOption(name)
  IN IF got.raised \in RuntimeErrors THEN [ret |-> NoneV, raised |-> "none"]
     ELSE IF got.raised # "none" THEN [ret |-> NoneV, raised |-> got.raised]
     ELSE [ret |-> Recover(got.text), raised |-> "none"]

getOption(name) ==
  /\ alive
  /\ call' = Call("getOption", "", name, NoneV)
  /\ ret' = GetOptionResult(name).ret
  /\ raised' = GetOptionResult(name).raised
  /\ setter' = "none"
  /\ delivered' = FALSE
  /\ UNCHANGED <<alive, running, closeCalls, declVars, optionVars, handlerVars>>

(***************************************************************************)
(* AMPL.close(), AMPL.__del__(), AMPL.isRunning()                          *)
(***************************************************************************)
\* self._impl.close(): one more release of the engine
ImplClose == running' = FALSE /\ closeCalls' = closeCalls + 1

close ==
  /\ alive
  /\ closeCalls < MaxCloses
  /\ ImplClose
  /\ Returns(Call("close", "", "", NoneV), NoneV)
  /\ setter' = "none"
  /\ delivered' = FALSE
  /\ UNCHANGED <<alive, declVars, optionVars, handlerVars>>

del ==
  /\ alive
  /\ alive' = FALSE
  /\ ImplClose
  /\ Returns(Call("__del__", "", "", NoneV), NoneV)
  /\ setter' = "none"
  /\ delivered' = FALSE
  /\ UNCHANGED <<declVars, optionVars, handlerVars>>

\* the value the isRunning method hands back: the body has no return statement
IsRunningResult == NoneV

isRunning ==
  /\ alive
  /\ Returns(Call("isRunning", "", "", NoneV), IsRunningResult)
  /\ setter' = "none"
  /\ delivered' = FALSE
  /\ UNCHANGED <<alive, running, closeCalls, declVars, optionVars, handlerVars>>

(***************************************************************************)
(* Statements and files: eval, reset, read, readData                       *)
(***************************************************************************)
Declared == UNION {{decls[k][i] : i \in 1..Len(decls[k])} : k \in Kinds}

\* the engine rejects a statement: a syntax error, or a name declared twice
EngineErrs(stmt) == stmt.k = "bad" \/ (stmt.k \in Kinds /\ stmt.a \in Declared)

\* the declarations after the engine interprets a statement it accepts
EngineDecls(stmt) ==
  IF stmt.k = "reset" THEN [k \in Kinds |-> <<>>]
  ELSE [decls EXCEPT ![stmt.k] = Append(@, stmt.a)]

\* an engine-reported error goes to the installed error handler, and is raised
\* when none is installed
EngineReports(c) ==
  IF installed["err"] # "none"
  THEN Returns(c, NoneV) /\ delivered' = TRUE
  ELSE Raises(c, "AMPLException") /\ delivered' = FALSE

\* self._impl.eval / read / readData on a statement
Interpret(c, stmt) ==
  /\ setter' = "none"
  /\ IF EngineGuard # "none"
     THEN Raises(c, EngineGuard) /\ delivered' = FALSE /\ UNCHANGED declVars
     ELSE IF stmt.k = "missing"
     THEN Raises(c, "FileNotFound") /\ delivered' = FALSE /\ UNCHANGED declVars
     ELSE IF EngineErrs(stmt)
     THEN EngineReports(c) /\ UNCHANGED declVars
     ELSE /\ Returns(c, NoneV)
          /\ delivered' = FALSE
          /\ decls' = EngineDecls(stmt)
          /\ removed' = IF stmt.k = "reset" THEN removed \cup Declared
                        ELSE removed \ {stmt.a}
  /\ UNCHANGED <<alive, running, closeCalls, optionVars, handlerVars>>

eval(amplstatements) ==
  /\ alive
  /\ Interpret(Call("eval", amplstatements.k, amplstatements.a, NoneV), amplstatements)

\* self.eval("reset;")
reset ==
  /\ alive
  /\ Interpret(Call("reset", "", "", NoneV), [k |-> "reset", a |-> ""])

read(fileName) ==
  /\ alive
  /\ Interpret(Call("read", fileName.k, fileName.a, NoneV), fileName)

readData(fileName) ==
  /\ alive
  /\ Interpret(Call("readData", fileName.k, fileName.a, NoneV), fileName)

(***************************************************************************)
(* Entities: getVariable(name) ... getParameter(name), getVariables() ...  *)
(* getParameters()                                                         *)
(***************************************************************************)
GetterOf ==
  [k \in Kinds |->
     CASE k = "Variable" -> "getVariable" [] k = "Constraint" -> "getConstraint"
       [] k = "Objective" -> "getObjective" [] k = "Set" -> "getSet"
       [] k = "Parameter" -> "getParameter"]

ListerOf ==
  [k \in Kinds |->
     CASE k = "Variable" -> "getVariables" [] k = "Constraint" -> "getConstraints"
       [] k = "Objective" -> "getObjectives" [] k = "Set" -> "getSets"
       [] k = "Parameter" -> "getParameters"]

\* a wrapper around the engine's entity of that kind and name
EntityV(k, name) == [t |-> k, n |-> 0, e |-> 0, s |-> <<name>>]

\* MapEntities over the engine's enumeration
MapV(names) == [t |-> "MapEntities", n |-> 0, e |-> 0, s |-> names]

\* getConstraints() asking the engine for its variables
EntitiesOfWrongKind(k) == decls[IF k = "Constraint" THEN "Variable" ELSE k]

\* the names self._impl.getVariables() ... getParameters() enumerate for the
\* getter of kind k
EntitiesOf(k) == decls[k]

getEntityOfKind(k, name) ==
  LET c == Call(GetterOf[k], k, name, NoneV)
  IN /\ IF EngineGuard # "none" THEN Raises(c, EngineGuard)
        ELSE IF name \notin {decls[k][i] : i \in 1..Len(decls[k])}
        THEN Raises(c, "OutOfRange")
        ELSE Returns(c, EntityV(k, name))
     /\ setter' = "none"
     /\ delivered' = FALSE
     /\ UNCHANGED <<alive, running, closeCalls, declVars, optionVars, handlerVars>>

getEntitiesOfKind(k) ==
  LET c == Call(ListerOf[k], k, "", NoneV)
  IN /\ IF EngineGuard # "none" THEN Raises(c, EngineGuard)
        ELSE Returns(c, MapV(EntitiesOf(k)))
     /\ setter' = "none"
     /\ delivered' = FALSE
     /\ UNCHANGED <<alive, running, closeCalls, declVars, optionVars, handlerVars>>

getVariable(name) == alive /\ getEntityOfKind("Variable", name)

getConstraint(name) == alive /\ getEntityOfKind("Constraint", name)

getObjective(name) == alive /\ getEntityOfKind("Objective", name)

getSet(name) == alive /\ getEntityOfKind("Set", name)

getParameter(name) == alive /\ getEntityOfKind("Parameter", name)

getVariables == alive /\ getEntitiesOfKind("Variable")

getConstraints == alive /\ getEntitiesOfKind("Constraint")

getObjectives == alive /\ getEntitiesOfKind("Objective")

getSets == alive /\ getEntitiesOfKind("Set")

getParameters == alive /\ getEntitiesOfKind("Parameter")

(***************************************************************************)
(* solve(), getValue(scalarExpression), getData(statements),               *)
(* setData(dataframe): forwarded, no declaration changes                   *)
(***************************************************************************)
OpaqueV(what) == [t |-> what, n |-> 0, e |-> 0, s |-> <<>>]

Forward(op, result) ==
  LET c == Call(op, "", "", NoneV)
  IN /\ IF EngineGuard # "none" THEN Raises(c, EngineGuard) ELSE Returns(c, result)
     /\ setter' = "none"
     /\ delivered' = FALSE
     /\ UNCHANGED <<alive, running, closeCalls, declVars, optionVars, handlerVars>>

solve == alive /\ Forward("solve", NoneV)

getValue == alive /\ Forward("getValue", OpaqueV("scalar"))

getData == alive /\ Forward("getData", OpaqueV("DataFrame"))

setData == alive /\ Forward("setData", NoneV)

(***************************************************************************)
(* Handlers: setOutputHandler, setErrorHandler, getOutputHandler,          *)
(* getErrorHandler                                                         *)
(***************************************************************************)
HandlerV(h) == [t |-> "handler", n |-> 0, e |-> 0, s |-> <<h>>]

\* every handler method assigning self._outputhandler
FieldOfOutputOnly(hk) == "out"

\* the facade field a setter or getter of handler kind hk assigns
FieldOf(hk) == hk

\* the assignment self._outputhandler = h / self._errorhandler = h
AssignField(hk, h) ==
  /\ outputhandler' = IF FieldOf(hk) = "out" THEN h ELSE outputhandler
  /\ errorhandler' = IF FieldOf(hk) = "err" THEN h ELSE errorhandler

setHandler(op, hk, h) ==
  LET c == Call(op, hk, h, NoneV)
  IN /\ AssignField(hk, h)
     /\ IF EngineGuard # "none"
        THEN Raises(c, EngineGuard) /\ UNCHANGED <<installed, lastSet>>
        ELSE /\ Returns(c, NoneV)
             /\ installed' = [installed EXCEPT ![hk] = h]
             /\ lastSet' = [lastSet EXCEPT ![hk] = h]
     /\ setter' = "none"
     /\ delivered' = FALSE
     /\ UNCHANGED <<alive, running, closeCalls, declVars, optionVars>>

setOutputHandler(h) == alive /\ setHandler("setOutputHandler", "out", h)

setErrorHandler(h) == alive /\ setHandler("setErrorHandler", "err", h)

getHandler(op, hk) ==
  LET c == Call(op, hk, "", NoneV)
  IN /\ IF EngineGuard # "none"
        THEN Raises(c, EngineGuard) /\ UNCHANGED facadeVars
        ELSE AssignField(hk, installed[hk]) /\ Returns(c, HandlerV(installed[hk]))
     /\ setter' = "none"
     /\ delivered' = FALSE
     /\ UNCHANGED <<alive, running, closeCalls, declVars, optionVars,
                    installed, lastSet>>

getOutputHandler == alive /\ getHandler("getOutputHandler", "out")

getErrorHandler == alive /\ getHandler("getErrorHandler", "err")

(***************************************************************************)
(* Specifications: a client of the whole facade, and clients that keep to  *)
(* one part of it                                                          *)
(***************************************************************************)
NextOptions ==
  \/ \E name \in OptNames, value \in OptionValues : setOption(name, value)
  \/ \E name \in OptNames : getOption(name)
  \/ close
  \/ del
  \/ isRunning

SpecOptions == Init /\ [][NextOptions]_vars

NextEntities ==
  \/ \E stmt \in Statements : eval(stmt)
  \/ reset
  \/ \E file \in Files : read(file)
  \/ \E file \in Files : readData(file)
  \/ \E name \in Names : getVariable(name)
  \/ \E name \in Names : getConstraint(name)
  \/ \E name \in Names : getObjective(name)
  \/ \E name \in Names : getSet(name)
  \/ \E name \in Names : getParameter(name)
  \/ getVariables
  \/ getConstraints
  \/ getObjectives
  \/ getSets
  \/ getParameters
  \/ solve
  \/ getValue
  \/ getData
  \/ setData
  \/ close
  \/ del

SpecEntities == Init /\ [][NextEntities]_vars

NextHandlers ==
  \/ \E h \in Handlers : setOutputHandler(h)
  \/ \E h \in Handlers : setErrorHandler(h)
  \/ getOutputHandler
  \/ getErrorHandler
  \/ close
  \/ del

SpecHandlers == Init /\ [][NextHandlers]_vars

\* a client that sets and gets options and evaluates statements the engine
\* rejects, with and without an error handler
NextFailures ==
  \/ \E name \in OptNames, value \in OptionValues : setOption(name, value)
  \/ \E name \in OptNames : getOption(name)
  \/ \E stmt \in {s \in Statements : s.k = "bad"} : eval(stmt)
  \/ \E h \in Handlers : setErrorHandler(h)
  \/ close
  \/ del

SpecFailures == Init /\ [][NextFailures]_vars

\* a client that closes the session and goes on calling it
NextAfterClose ==
  \/ close
  \/ del
  \/ \E name \in OptNames : ~running /\ getOption(name)
  \/ \E name \in OptNames, value \in OptionValues : ~running /\ setOption(name, value)
  \/ ~running /\ isRunning
  \/ \E stmt \in Statements : ~running /\ eval(stmt)
  \/ ~running /\ reset
  \/ \E file \in Files : ~running /\ read(file)
  \/ \E file \in Files : ~running /\ readData(file)
  \/ \E name \in Names : ~running /\ getVariable(name)
  \/ \E name \in Names : ~running /\ getConstraint(name)
  \/ \E name \in Names : ~running /\ getObjective(name)
  \/ \E name \in Names : ~running /\ getSet(name)
  \/ \E name \in Names : ~running /\ getParameter(name)
  \/ ~running /\ getVariables
  \/ ~running /\ getConstraints
  \/ ~running /\ getObjectives
  \/ ~running /\ getSets
  \/ ~running /\ getParameters
  \/ ~running /\ solve
  \/ ~running /\ getValue
  \/ ~running /\ getData
  \/ ~running /\ setData
  \/ \E h \in Handlers : ~running /\ setOutputHandler(h)
  \/ \E h \in Handlers : ~running /\ setErrorHandler(h)
  \/ ~running /\ getOutputHandler
  \/ ~running /\ getErrorHandler

SpecAfterClose == Init /\ [][NextAfterClose]_vars

Next == NextOptions \/ NextEntities \/ NextHandlers

Spec == Init /\ [][Next]_vars

(***************************************************************************)
(* Properties                                                              *)
(***************************************************************************)
SupportedTypes == {"int", "float", "bool", "str"}

IsNumber(v) == v.t \in {"int", "bool", "float"}

AsFloat(v) == IF v.t = "float" THEN v ELSE FloatV(v.n, 0)

\* Python's a == b on the values of the model
PyEquals(a, b) ==
  IF IsNumber(a) /\ IsNumber(b) THEN AsFloat(a) = AsFloat(b)
  ELSE a.t = b.t /\ a = b

ForwardingOps ==
  {"eval", "read", "readData", "solve", "getValue", "getData", "setData",
   "setOption", "getOption"}
    \cup {GetterOf[k] : k \in Kinds} \cup {ListerOf[k] : k \in Kinds}

\* C1: setOption sends an integer to the integer setter, a float to the
\* floating-point setter, a boolean to the boolean setter, a string to the
\* generic string setter, and fails with TypeError, calling no setter, for a
\* value of any other type.
C1_TypeDirectedDispatch ==
  call.op = "setOption" =>
    CASE call.v.t = "int" -> setter = "setIntOption"
      [] call.v.t = "float" -> setter = "setDblOption"
      [] call.v.t = "bool" -> setter = "setBoolOption"
      [] call.v.t = "str" -> setter = "setOption"
      [] OTHER -> setter = "none" /\ raised = "TypeError"

\* C2: once the session is closed it stays closed, and every engine-forwarding
\* operation called on it fails with the engine-not-running error instead of
\* returning a value.
C2_ClosedSessionFails ==
  /\ closeCalls > 0 => ~running
  /\ (~running /\ call.op \in ForwardingOps) =>
       (raised = "EngineNotRunning" /\ ret = NoneV)

\* C3: a call to getVariables / getConstraints / getObjectives / getSets /
\* getParameters on a running session returns exactly the names the engine
\* declares for that kind at the time of the call, in the engine's order, and
\* none of the names a reset dropped that were not declared again.
C3_FreshEnumeration ==
  \A k \in Kinds :
    call.op = ListerOf[k] =>
      /\ (raised = "none") = running
      /\ running =>
           /\ ret = MapV(decls[k])
           /\ \A i \in 1..Len(ret.s) : ret.s[i] \notin removed

C3_ListedAfterReset ==
  /\ call.op = "getVariables"
  /\ raised = "none"
  /\ "x" \in removed
  /\ ret.s = <<"y">>

\* C4: over the lifetime of a session, whatever close() calls and teardown it
\* sees, the engine handle is released once.
C4_ReleasedOnce == closeCalls <= 1

\* C5: getOption returns an integer when the stored text parses as an integer
\* ("10" gives 10), a float when it parses only as a float ("1.5" gives 1.5),
\* and the text itself, unchanged, otherwise ("gurobi").
C5_ReadBackRecovery ==
  (call.op = "getOption" /\ running /\ call.a \in DOMAIN options) =>
    LET text == options[call.a]
    IN /\ raised = "none"
       /\ (ret.t = "int") = IntParses(text)
       /\ (ret.t = "float") = (~IntParses(text) /\ FloatParses(text))
       /\ (ret.t = "str") = (~IntParses(text) /\ ~FloatParses(text))
       /\ ret.t = "int" => ret = IntV(IntOf(text))
       /\ ret.t = "float" => ret = FloatOf(text)
       /\ ret.t = "str" => ret.s = text
       /\ text = <<"1", "0">> => ret = IntV(10)
       /\ text = <<"1", ".", "5">> => ret = FloatV(15, -1)
       /\ text = <<"g", "u", "r", "o", "b", "i">> => ret = StrV(text)

C5_FloatRecovered ==
  /\ call.op = "getOption"
  /\ running
  /\ call.a \in DOMAIN options
  /\ options[call.a] = <<"1", ".", "5">>
  /\ ret = FloatV(15, -1)

\* C6: isRunning returns a boolean, true exactly when the engine is running.
C6_IsRunningReturnsBool == call.op = "isRunning" => ret = BoolV(running)

C9_UnsupportedTypeRaised ==
  /\ [](call.op = "setOption" /\ call.v.t \notin SupportedTypes =>
          /\ raised = "TypeError"
          /\ ~delivered
          /\ setter = "none")
  /\ [][call'.op = "setOption" /\ call'.v.t \notin SupportedTypes =>
          options' = options]_vars

C9_RaisedPastHandler ==
  /\ call.op = "setOption"
  /\ call.v = ListV
  /\ installed["err"] # "none"
  /\ running
  /\ raised = "TypeError"

\* C10: while only handler setters and getters are called, the handler the
\* facade stores for each kind is the one installed in the engine and the one
\* last set for that kind, and a handler getter returns it.
C10_HandlersInSync ==
  closeCalls = 0 =>
    /\ outputhandler = installed["out"]
    /\ errorhandler = installed["err"]
    /\ installed = lastSet
    /\ call.op = "getOutputHandler" => ret = HandlerV(lastSet["out"])
    /\ call.op = "getErrorHandler" => ret = HandlerV(lastSet["err"])

C10_BothKindsSet ==
  /\ call.op = "getErrorHandler"
  /\ ret = HandlerV("h2")
  /\ outputhandler = "h1"
  /\ errorhandler = "h2"

====
